---------------------------- MODULE Spec2Model ----------------------------
(***************************************************************************)
(* Session layer of the iodine tunnel: the authenticated downstream frame  *)
(* (src/src/encoding.c) and the fragment window (src/src/window.h).        *)
(*                                                                         *)
(* Representation.  A byte is a number in 0..255 and a buffer a sequence   *)
(* of bytes.  An encoded symbol is represented by its index in the codec's *)
(* alphabet (the alphabet tables live in the codec files, which this       *)
(* module holds only through their interface).  A key is NoKey (the NULL   *)
(* pointer) or a key identity.  32-bit quantities are kept below 2^31.     *)
(***************************************************************************)
EXTENDS Integers, Sequences, FiniteSets, TLC

(***************************************************************************)
(* Bounds of the model.                                                    *)
(***************************************************************************)
\* longest payload handed to downstream_encode
MaxPayload == 2

(***************************************************************************)
(* Constants of encoding.h (the header is not part of the files at hand;   *)
(* the values follow the wire layout: three codec bits, one short-MAC bit, *)
(* one error bit in a five-bit flags symbol; the decode error bits lie     *)
(* above the three bits of the embedded error code).                       *)
(***************************************************************************)
C_BASE32 == 0
C_BASE64 == 1
C_BASE64U == 2
C_BASE128 == 3
C_RAW == 4
DH_HMAC32 == 8
DH_ERROR == 16
DDERR_IS_ANS == 8
DDERR_TOOSHORT == 16
DDERR_BADHMAC == 32

\* the NULL key pointer and the NULL encoder
NoKey == 0
NoEncoder == -1

\* bit tests and bit operations on small numbers
HasBit(v, bit) == (v \div bit) % 2 = 1
ClearBit(v, bit) == IF HasBit(v, bit) THEN v - bit ELSE v
SetBit(v, bit) == IF HasBit(v, bit) THEN v ELSE v + bit
Min(a, b) == IF a <= b THEN a ELSE b
Zeros(n) == [i \in 1..n |-> 0]
Prefix(s, n) == SubSeq(s, 1, Min(n, Len(s)))

(***************************************************************************)
(* Collaborators of encoding.c, held through their interface.              *)
(***************************************************************************)
\* putlong: four bytes, network byte order
putlong(v) == << (v \div 16777216) % 256, (v \div 65536) % 256,
                 (v \div 256) % 256, v % 256 >>

\* b32_5to8 / b32_8to5: one five-bit value to one base32 symbol and back
b32_5to8(v) == v % 32
b32_8to5(c) == c % 32

\* hmac_md5: a keyed 16-byte digest of the whole message.  The stand-in is
\* a keyed polynomial checksum expanded to 16 bytes: every byte of the
\* message and the key enter the digest.
RECURSIVE MacFold(_, _, _)
MacFold(msg, i, h) ==
    IF i > Len(msg) THEN h
    ELSE MacFold(msg, i + 1, (h * 33 + msg[i] + 1) % 65521)
hmac_md5(key, msg) ==
    LET h == MacFold(msg, 1, key)
    IN  [i \in 1..16 |-> ((h + i) * (key + 2 * i + 1)) % 256]

\* get_rand_bytes: 16 bytes nobody controls; one of these seeds
RandSeeds == {3, 200}
RandBytes(seed) == [i \in 1..16 |-> (seed + 7 * i) % 256]

\* the codecs: base32 packs 5 bits per symbol, base64 and base64u 6,
\* base128 7 and raw (base256) 8.
BitsPerSymbol(enc) ==
    CASE enc = C_BASE32 -> 5
      [] enc = C_BASE64 -> 6
      [] enc = C_BASE64U -> 6
      [] enc = C_BASE128 -> 7
      [] enc = C_RAW -> 8
\* a codec works in blocks: BlkRaw raw bytes make BlkEnc symbols
BlkRaw(enc) ==
    CASE enc = C_BASE32 -> 5
      [] enc = C_BASE64 -> 3
      [] enc = C_BASE64U -> 3
      [] enc = C_BASE128 -> 7
      [] enc = C_RAW -> 1
BlkEnc(enc) == (BlkRaw(enc) * 8) \div BitsPerSymbol(enc)
\* enc->get_encoded_length
EncodedLength(enc, n) == (8 * n + BitsPerSymbol(enc) - 1) \div BitsPerSymbol(enc)

\* element i of s, zero past its end
At(s, i) == IF i <= Len(s) THEN s[i] ELSE 0

\* the symbols of data under a codec of k bits per symbol: the bit stream of
\* the bytes, most significant bit first, cut into k-bit symbols, the last
\* one filled with zero bits
PackBits(data, k) ==
    [j \in 1..((8 * Len(data) + k - 1) \div k) |->
        LET pos == (j - 1) * k
            b == pos \div 8
            win == At(data, b + 1) * 256 + At(data, b + 2)
        IN  (win \div (2 ^ (16 - (pos % 8) - k))) % (2 ^ k)]

\* the bytes of a symbol stream of k bits per symbol: the bit stream of the
\* symbols cut into bytes, an incomplete last byte dropped
UnpackBits(syms, k) ==
    [j \in 1..((k * Len(syms)) \div 8) |->
        LET pos == (j - 1) * 8
            q == pos \div k
            win == At(syms, q + 1) * (2 ^ (2 * k)) + At(syms, q + 2) * (2 ^ k)
                   + At(syms, q + 3)
        IN  (win \div (2 ^ (3 * k - (pos % k) - 8))) % 256]

\* enc->encode(buf, &buflen, data, size): the symbols written.  A buffer
\* too small for all of the data takes the whole blocks that fit.
EncEncode(enc, buflen, data) ==
    LET size == IF buflen < EncodedLength(enc, Len(data))
                THEN Min(Len(data), BlkRaw(enc) * (buflen \div BlkEnc(enc)))
                ELSE Len(data)
    IN  PackBits(SubSeq(data, 1, size), BitsPerSymbol(enc))

\* enc->decode(buf, &buflen, data, size): the bytes written (at most buflen);
\* of a symbol only the bits of the codec count
EncDecode(enc, buflen, syms) ==
    LET k == BitsPerSymbol(enc)
    IN  Prefix(UnpackBits([i \in 1..Len(syms) |-> syms[i] % (2 ^ k)], k), buflen)

(***************************************************************************)
(* encoding.c                                                              *)
(***************************************************************************)
get_encoder(codec) ==
    IF (codec % 8) \in {C_BASE32, C_BASE64, C_BASE64U, C_BASE128, C_RAW}
    THEN codec % 8
    ELSE NoEncoder

\* returns the symbols written to buf (their count is the return value)
encode_data(buflen, data, codec) ==
    LET enc == get_encoder(codec)
    IN  IF enc = NoEncoder THEN <<>>
        ELSE EncEncode(enc, buflen - 1, data)

\* returns the bytes written to buf (their count is the return value)
unpack_data(buflen, data, codec) ==
    LET enc == get_encoder(codec)
    IN  IF enc = NoEncoder THEN <<>>
        ELSE EncDecode(enc, buflen, data)

\* hmaclen = flags & DH_HMAC32 ? 4 : 12
HmacLen(flags) == IF HasBit(flags, DH_HMAC32) THEN 4 ELSE 12

\* (mutant) the short-MAC bit is left as the caller gave it
EncodeFlags_NotForced(flags) == flags

\* the flags downstream_encode goes on with: error forces the long MAC
EncodeFlags(flags) ==
    IF HasBit(flags, DH_ERROR) THEN ClearBit(flags, DH_HMAC32) ELSE flags

\* the codec downstream_encode encodes the body with
EncodeCodec(flags) == IF HasBit(flags, DH_ERROR) THEN C_BASE32 ELSE flags % 8

\* the capacity check of downstream_encode
EncodeFits(outlen, hmaclen, datalen) == ~(outlen < 5 + hmaclen + datalen)

\* the buffer the MAC is computed over, MAC field zeroed
EncodeHmacBuf(len, flagsym, cmc, hmaclen, data) ==
    putlong(len) \o <<flagsym>> \o putlong(cmc) \o Zeros(hmaclen) \o data

\* downstream_encode(out, outlen, data, datalen, hmac_key, flags, cmc), where
\* rnd is what get_rand_bytes delivers: [ret, out, outlen]
downstream_encode(outlen, data, hmac_key, flags0, cmc, rnd) ==
    LET flags == EncodeFlags(flags0)
        enc == EncodeCodec(flags0)
        hmaclen == HmacLen(flags)
        datalen == Len(data)
        len == 1 + 4 + hmaclen + datalen
        flagsym == b32_5to8(flags)
        hmacbuf == EncodeHmacBuf(len, flagsym, cmc, hmaclen, data)
        hmac == IF hmac_key # NoKey THEN hmac_md5(hmac_key, hmacbuf) ELSE rnd
        body == putlong(cmc) \o SubSeq(hmac, 1, hmaclen) \o data
        syms == encode_data(outlen - 2, body, enc)
    IN  IF ~EncodeFits(outlen, hmaclen, datalen)
        THEN [ret |-> 0, out |-> <<>>, outlen |-> outlen]
        ELSE [ret |-> 1, out |-> <<flagsym>> \o syms, outlen |-> Len(syms) + 1]


\* (mutant) the length field leaves out the flags symbol
DecodeHmacBuf_LenWithoutFlags(len, flagsym, raw, hmaclen) ==
    putlong(len) \o <<flagsym>> \o SubSeq(raw, 1, 4) \o Zeros(hmaclen)
        \o SubSeq(raw, 4 + hmaclen + 1, len)

\* the buffer downstream_decode recomputes the MAC over: length, the flags
\* symbol as received, counter, zeroed MAC field, payload
DecodeHmacBuf(len, flagsym, raw, hmaclen) ==
    putlong(len + 1) \o <<flagsym>> \o SubSeq(raw, 1, 4) \o Zeros(hmaclen)
        \o SubSeq(raw, 4 + hmaclen + 1, len)

\* the MAC field carried by the packet (hmac_pkt)
PacketHmac(raw, hmaclen) == SubSeq(raw, 5, 4 + hmaclen)

\* (mutant) the comparison stops one byte early
HmacMatches_OneByteLess(hmac, hmac_pkt, hmaclen) ==
    \A i \in 1..(hmaclen - 1) : hmac[i] = hmac_pkt[i]

\* memcmp(hmac, hmac_pkt, hmaclen) == 0
HmacMatches(hmac, hmac_pkt, hmaclen) ==
    \A i \in 1..hmaclen : hmac[i] = hmac_pkt[i]

\* the payload downstream_decode hands out on success
DecodePayload(raw, len, hmaclen) == SubSeq(raw, 4 + hmaclen + 1, len)

\* (mutant) the short MAC is accepted together with an error
ErrorWithShortMac_Unchecked(iserr, hmaclen) == FALSE

\* the peer claims the short MAC together with an error
ErrorWithShortMac(iserr, hmaclen) == iserr /\ hmaclen = 4

\* (mutant) the copy is not clamped to the capacity of out
DecodeFail_Unclamped(outlen, encdata, err, unpacked) ==
    [ret |-> 0, out |-> encdata, outlen |-> Len(encdata), err |-> err,
     unpacked |-> unpacked]

\* _dderr: the raw input copied to out, as much as fits
DecodeFail(outlen, encdata, err, unpacked) ==
    [ret |-> 0, out |-> Prefix(encdata, outlen),
     outlen |-> Min(outlen, Len(encdata)), err |-> err, unpacked |-> unpacked]

\* (mutant) the payload is copied whatever the room
PayloadFits_Unchecked(outlen, len, hmaclen) == TRUE
\* *outlen >= len - 4 - hmaclen: the output has room for the payload
PayloadFits(outlen, len, hmaclen) == ~(outlen < len - 4 - hmaclen)

\* downstream_decode(out, outlen, encdata, encdatalen, hmac_key) called with
\* downstream_decode_err = err0: [ret, out, outlen, err, unpacked], err the
\* value of downstream_decode_err it leaves, unpacked whether the body went
\* through unpack_data
downstream_decode(outlen, encdata, hmac_key, err0) ==
    LET encdatalen == Len(encdata)
        flags0 == b32_8to5(encdata[1])
        hmaclen == HmacLen(flags0)
        iserr == HasBit(flags0, DH_ERROR)
        error == flags0 % 8
        err1 == IF iserr THEN DDERR_IS_ANS ELSE err0
        flags == IF iserr THEN C_BASE32 ELSE flags0
        raw == unpack_data(encdatalen - 1, Tail(encdata), flags % 8)
        len == Len(raw)
        hmacbuf == DecodeHmacBuf(len, encdata[1], raw, hmaclen)
        hmac == hmac_md5(hmac_key, hmacbuf)
    IN  IF encdatalen < 2
        THEN DecodeFail(outlen, encdata, err0, FALSE)
        ELSE IF ErrorWithShortMac(iserr, hmaclen)
        THEN DecodeFail(outlen, encdata, SetBit(err1, DDERR_BADHMAC), FALSE)
        ELSE IF len < 4 + hmaclen
        THEN DecodeFail(outlen, encdata, DDERR_TOOSHORT, TRUE)
        ELSE IF hmac_key # NoKey
                /\ ~HmacMatches(hmac, PacketHmac(raw, hmaclen), hmaclen)
        THEN DecodeFail(outlen, encdata, DDERR_BADHMAC, TRUE)
        ELSE IF ~PayloadFits(outlen, len, hmaclen)
        THEN DecodeFail(outlen, encdata, err1, TRUE)
        ELSE IF ~HasBit(flags, DH_ERROR)
        THEN [ret |-> 1, out |-> DecodePayload(raw, len, hmaclen),
              outlen |-> len - 4 - hmaclen, err |-> err1, unpacked |-> TRUE]
        ELSE DecodeFail(outlen, encdata, error + DDERR_IS_ANS, TRUE)

(***************************************************************************)
(* window.h: the fragment window.  The macros are those of the header;     *)
(* the functions it declares are defined in a file that is not at hand and *)
(* follow the design document (section 4.2).                               *)
(***************************************************************************)
MAX_SEQ_ID == 256
MAX_SEQ_AHEAD == MAX_SEQ_ID \div 2

\* slots of the window buffer (frag_buffer.length)
WinLength == 2
\* successful reassemblies in one run
MaxDeliveries == 1
\* arrivals in one run that are duplicates or lie beyond the buffer
MaxNoise == 1

\* AFTER(w, o): index of the slot o slots after window_start
AFTER(w, o) == (w.window_start + o) % w.length
\* AFTERSEQ(w, o): sequence id o after start_seq_id
AFTERSEQ(w, o) == (w.start_seq_id + o) % MAX_SEQ_ID
\* (mutant) the wrapped branch is one short
SEQ_OFFSET_WrapOneShort(start, a) ==
    IF a >= start THEN a - start ELSE MAX_SEQ_ID - 1 - start + a
\* SEQ_OFFSET(start, a): wrapped offset of sequence id a from start
SEQ_OFFSET(start, a) == IF a >= start THEN a - start ELSE MAX_SEQ_ID - start + a
\* INWINDOW_SEQ(start, end, a): sequence id a is within start to end
INWINDOW_SEQ(start, end, a) ==
    IF start < end
    THEN a >= start /\ a < end
    ELSE (a >= start /\ a < MAX_SEQ_ID) \/ a < end
\* WRAP(x), WRAPSEQ(x)
WRAP(w, x) == x % w.length
WRAPSEQ(x) == x % MAX_SEQ_ID

\* an unused slot: no data
NoFragment == [data |-> <<>>, seqID |-> 0, retries |-> 0, acks |-> 0,
               ack_other |-> -1, compressed |-> 0, start |-> 0, end |-> 0]
\* (mutant) the wrong field is tested
Occupied_WrongField(f) == f.acks # 0
\* len != 0: the slot is in use
Occupied(f) == f.data # <<>>

\* window_buffer_init(length, windowsize, maxfraglen, WINDOW_RECVING), and
\* start_seq_id where the stream of sequence ids has got to
WindowAt(seq) ==
    [frags |-> [i \in 0..(WinLength - 1) |-> NoFragment],
     length |-> WinLength, numitems |-> 0, window_start |-> 0,
     chunk_start |-> 0, start_seq_id |-> seq, resends |-> 0, oos |-> 0]

\* window_process_incoming_fragment(w, f)
window_process_incoming_fragment(w, f) ==
    LET offset == SEQ_OFFSET(w.start_seq_id, f.seqID)
        dest == AFTER(w, offset)
        resident == Occupied(w.frags[dest]) /\ w.frags[dest].seqID = f.seqID
    IN  IF offset >= MAX_SEQ_AHEAD /\ ~resident
        THEN [w EXCEPT !.resends = @ + 1]
        ELSE IF resident
        THEN [w EXCEPT !.frags[dest].retries = @ + 1]
        ELSE [w EXCEPT !.frags[dest] = f,
                       !.numitems = @ + 1,
                       !.oos = IF offset # w.numitems THEN @ + 1 ELSE @]

\* the slots window_reassemble_data scans: i slots after chunk_start
ChunkSlot(w, i) == WRAP(w, w.chunk_start + i)
\* length of the run of occupied slots from chunk_start
RECURSIVE RunLength(_, _)
RunLength(w, i) ==
    IF i < w.length /\ Occupied(w.frags[ChunkSlot(w, i)])
    THEN RunLength(w, i + 1)
    ELSE i
\* payloads of the slots chunk_start .. chunk_start + n - 1, in that order
RECURSIVE ConcatRun(_, _, _)
ConcatRun(w, i, n) ==
    IF i >= n THEN <<>>
    ELSE w.frags[ChunkSlot(w, i)].data \o ConcatRun(w, i + 1, n)

\* window_reassemble_data(w, data, maxlen, compression), data large enough:
\* [w, len, data, compression, frags]: the window it leaves, the bytes it
\* returns, and the number of fragments it consumed
window_reassemble_data(w) ==
    LET run == RunLength(w, 0)
        ends == {i \in 0..(run - 1) : w.frags[ChunkSlot(w, i)].end = 1}
        n == 1 + CHOOSE i \in ends : \A j \in ends : i <= j
        data == ConcatRun(w, 0, n)
    IN  IF run > 0 /\ w.frags[w.chunk_start].start = 1 /\ ends # {}
        THEN [w |-> [w EXCEPT
                       !.frags = [s \in DOMAIN w.frags |->
                                    IF \E i \in 0..(n - 1) : s = ChunkSlot(w, i)
                                    THEN NoFragment ELSE w.frags[s]],
                       !.chunk_start = WRAP(w, w.chunk_start + n),
                       !.window_start = AFTER(w, n),
                       !.start_seq_id = AFTERSEQ(w, n),
                       !.numitems = @ - n],
              len |-> Len(data), data |-> data,
              compression |-> w.frags[w.chunk_start].compressed, frags |-> n]
        ELSE [w |-> w, len |-> 0, data |-> <<>>, compression |-> 0, frags |-> 0]

(***************************************************************************)
(* The sending window (WINDOW_SENDING), over the same struct frag_buffer.   *)
(***************************************************************************)

\* bytes of one fragment (frag_buffer.maxfraglen)
MaxFragLen == 2
\* sends of one fragment before it is given up (frag_buffer.max_retries)
MaxRetries == 2
\* slots and in-flight limit of the sending window
SendLength == WinLength
SendWindowSize == WinLength
\* frag_buffer.timeout, in ticks of the clock
AckTimeout == 0

\* an unused slot of the sending window
NoSendFragment ==
    [data |-> <<>>, seqID |-> 0, retries |-> 0, acks |-> 0, ack_other |-> -1,
     compressed |-> 0, start |-> 0, end |-> 0, lastsent |-> 0]

\* window_buffer_init(length, windowsize, maxfraglen, WINDOW_SENDING), and
\* the slot and the sequence id the stream of fragments has got to
SendWindowAt(seq, slot) ==
    [frags |-> [i \in 0..(SendLength - 1) |-> NoSendFragment],
     length |-> SendLength, numitems |-> 0, window_start |-> slot,
     last_write |-> slot, chunk_start |-> slot, cur_seq_id |-> seq,
     start_seq_id |-> seq, windowsize |-> SendWindowSize,
     maxfraglen |-> MaxFragLen, max_retries |-> MaxRetries,
     timeout |-> AckTimeout]

\* window_buffer_available(w): free slots
window_buffer_available(w) == w.length - w.numitems

\* (mutant) the last, short fragment is not counted
FragmentsFor_RoundedDown(w, len) == len \div w.maxfraglen
\* fragments that len bytes need
FragmentsFor(w, len) == (len + w.maxfraglen - 1) \div w.maxfraglen

\* (mutant) one slot more than there is
ChunkFits_OneTooMany(w, n) == n <= window_buffer_available(w) + 1
\* the window has a free slot for each of n fragments
ChunkFits(w, n) == n <= window_buffer_available(w)

\* fragment k of n of the data, as window_add_outgoing_data makes it
OutgoingFragment(w, data, compressed, k, n) ==
    [data |-> SubSeq(data, k * w.maxfraglen + 1,
                     Min((k + 1) * w.maxfraglen, Len(data))),
     seqID |-> WRAPSEQ(w.cur_seq_id + k), retries |-> 0, acks |-> 0,
     ack_other |-> -1, compressed |-> compressed,
     start |-> IF k = 0 THEN 1 ELSE 0, end |-> IF k = n - 1 THEN 1 ELSE 0,
     lastsent |-> 0]

\* window_add_outgoing_data(w, data, len, compressed), len > 0:
\* [w, ret]: the window it leaves and the number of fragments, or -1
window_add_outgoing_data(w, data, compressed) ==
    LET n == FragmentsFor(w, Len(data))
        k(s) == (s - w.last_write + w.length) % w.length
    IN  IF ~ChunkFits(w, n)
        THEN [w |-> w, ret |-> -1]
        ELSE [w |-> [w EXCEPT
                       !.frags = [s \in DOMAIN w.frags |->
                                    IF k(s) < n
                                    THEN OutgoingFragment(w, data, compressed,
                                                          k(s), n)
                                    ELSE w.frags[s]],
                       !.numitems = @ + n,
                       !.last_write = WRAP(w, @ + n),
                       !.cur_seq_id = WRAPSEQ(@ + n)],
              ret |-> n]

\* the slots of the current window: at most windowsize from window_start
InFlightSlots(w) ==
    {AFTER(w, i) : i \in 0..(Min(w.numitems, w.windowsize) - 1)}

\* window_ack(w, seqid): the slot that holds seqid is marked
window_ack(w, seqid) ==
    [w EXCEPT !.frags = [s \in DOMAIN w.frags |->
                           IF Occupied(w.frags[s]) /\ w.frags[s].seqID = seqid
                           THEN [w.frags[s] EXCEPT !.acks = @ + 1]
                           ELSE w.frags[s]]]

\* slots from window_start on that are done with: acknowledged or empty
RECURSIVE LeadingDone(_, _)
LeadingDone(w, i) ==
    IF /\ i < Min(w.numitems, w.windowsize)
       /\ \/ ~Occupied(w.frags[AFTER(w, i)])
          \/ w.frags[AFTER(w, i)].acks > 0
    THEN LeadingDone(w, i + 1)
    ELSE i

\* window_slide(w, slide, delete): the window moves on by slide slots
window_slide(w, slide, delete) ==
    [w EXCEPT !.frags = [s \in DOMAIN w.frags |->
                           IF /\ delete = 1
                              /\ (s - w.window_start + w.length) % w.length < slide
                           THEN NoSendFragment ELSE w.frags[s]],
              !.numitems = @ - slide,
              !.window_start = AFTER(w, slide),
              !.chunk_start = AFTER(w, slide),
              !.start_seq_id = AFTERSEQ(w, slide)]

\* (mutant) the window advances by one slot at most
window_tick_OneSlot(w) == window_slide(w, Min(1, LeadingDone(w, 0)), 1)
\* window_tick(w): the window advances past what is done with
window_tick(w) == window_slide(w, LeadingDone(w, 0), 1)

\* fragments of the current window that may be sent at time t
Due(w, t) ==
    {s \in InFlightSlots(w) :
        /\ Occupied(w.frags[s])
        /\ w.frags[s].acks = 0
        /\ w.frags[s].retries = 0 \/ t - w.frags[s].lastsent > w.timeout}

\* the slot of the set that is nearest to window_start
FirstOf(w, S) ==
    CHOOSE s \in S : \A o \in S :
        (s - w.window_start + w.length) % w.length
            <= (o - w.window_start + w.length) % w.length

\* the fragment that is due first: one never sent, else the one sent
\* longest ago
NextDue(w, t) ==
    LET due == Due(w, t)
        unsent == {s \in due : w.frags[s].retries = 0}
        oldest == {s \in due : \A o \in due :
                      w.frags[s].lastsent <= w.frags[o].lastsent}
    IN  IF unsent # {} THEN FirstOf(w, unsent) ELSE FirstOf(w, oldest)

\* (mutant) one send more is allowed
RetriesExhausted_OneMore(w, f) == f.retries > w.max_retries
\* another send would exceed max_retries
RetriesExhausted(w, f) == f.retries >= w.max_retries

\* window_get_next_sending_fragment(w, other_ack) at time t:
\* [w, frag, dropped]: the window it leaves, the fragment to send or
\* NoSendFragment for NULL, and the sequence id it gave up or -1
window_get_next_sending_fragment(w, t, other_ack) ==
    IF Due(w, t) = {}
    THEN [w |-> w, frag |-> NoSendFragment, dropped |-> -1]
    ELSE LET s == NextDue(w, t)
             f == [w.frags[s] EXCEPT !.retries = @ + 1, !.lastsent = t,
                                     !.ack_other = other_ack]
         IN  IF RetriesExhausted(w, w.frags[s])
             THEN [w |-> [w EXCEPT !.frags[s] = NoSendFragment],
                   frag |-> NoSendFragment, dropped |-> w.frags[s].seqID]
             ELSE [w |-> [w EXCEPT !.frags[s] = f],
                   frag |-> f, dropped |-> -1]

\* the last window operation and what it returned
NoOp == [op |-> "none", len |-> 0, data |-> <<>>,
         compression |-> 0, frags |-> 0, had |-> {}, seqID |-> -1]

(***************************************************************************)
(* The framing state machine: one side builds a frame, the carrier may     *)
(* damage it, the other side validates what arrives.                       *)
(***************************************************************************)
VARIABLES
    downstream_decode_err,  \* the process-wide last decode error
    frame,                  \* the encoded message on the carrier
    tamper,                 \* what the carrier did to it since it was built
    enc,                    \* the last call of downstream_encode
    dec,                    \* the last call of downstream_decode
    fop                     \* the last framing operation

fvars == <<downstream_decode_err, frame, tamper, enc, dec, fop>>

\* the receiving window (its operations are further down)
VARIABLES
    win,        \* the receiving window
    pre,        \* the window before the last reassembly
    wop,        \* the last operation and what it returned
    arrived,    \* the fragments the window was left with at the last
                \* delivery and those handed in since, the first of each
                \* sequence id
    noise,      \* duplicates and arrivals beyond the buffer so far
    delivered   \* successful reassemblies so far

wvars == <<win, pre, wop, arrived, noise, delivered>>

\* sequence arithmetic on its own
VARIABLES
    sq          \* a membership test: the three sequence ids and the answer

\* the sending window (its operations are further down)
VARIABLES
    snd,        \* the sending window
    spre,       \* the window before the last window_add_outgoing_data
    sop,        \* the last operation and what it returned
    now,        \* the clock
    handed,     \* sequence id -> times the fragment was handed out to send
    chunk,      \* the chunk that was added to an empty window, the sequence
                \* ids of it acknowledged since, and whether one was
                \* acknowledged before an earlier one
    adds        \* chunks the window took so far

svars == <<snd, spre, sop, now, handed, chunk, adds>>

vars == <<fvars, wvars, sq, svars>>
\* what the framing leaves alone, and what the windows do
notFraming == <<wvars, sq, svars>>
notWindow == <<fvars, sq, svars>>
notSend == <<fvars, wvars, sq>>

\* the parts of the state that are not in use
FramingIdle ==
    /\ downstream_decode_err = 0
    /\ frame = <<>>
    /\ tamper = "none"
    /\ enc = [called |-> FALSE, flags |-> 0, cmc |-> 0, data |-> <<>>,
              key |-> NoKey, cap |-> 0, ret |-> 0]
    /\ dec = [called |-> FALSE, key |-> NoKey, cap |-> 0, encdata |-> <<>>,
              err0 |-> 0, ret |-> 0, out |-> <<>>, outlen |-> 0,
              unpacked |-> FALSE]
    /\ fop = "none"
WindowIdle ==
    /\ win = WindowAt(0)
    /\ pre = win
    /\ wop = NoOp
    /\ arrived = {}
    /\ noise = 0
    /\ delivered = 0
NoTest == [start |-> 0, end |-> 0, a |-> 0, done |-> FALSE, inwin |-> FALSE]
SeqIdle == sq = NoTest
\* the last sending operation and what it returned
NoSendOp == [op |-> "none", ret |-> 0, data |-> <<>>, sent |-> -1,
             dropped |-> -1, reached |-> -1]
NoChunk == [ws |-> 0, first |-> 0, n |-> 0, acked |-> {}, ooo |-> FALSE]
SendIdle ==
    /\ snd = SendWindowAt(0, 0)
    /\ spre = snd
    /\ sop = NoSendOp
    /\ now = 0
    /\ handed = <<>>
    /\ chunk = NoChunk
    /\ adds = 0

PayloadOf(n, v) == [i \in 1..n |-> (v + 37 * i) % 256]
Payloads == {PayloadOf(n, 165) : n \in 0..MaxPayload}
FlagsIn == {c + s * DH_HMAC32 + e * DH_ERROR :
                c \in 0..5, s \in 0..1, e \in 0..1} \cup {97}
Counters == {16909060, 2147483646}
EncodeKeys == {NoKey, 7}
DecodeKeys == {NoKey, 7}
EncodeCaps == {12, 20, 64}
DecodeCaps == {1, 64}
TamperFlags == {DH_ERROR + DH_HMAC32 + 2}
TruncateTo == {1, 3}
FlipPositions == {9}

NoEncode == [called |-> FALSE, flags |-> 0, cmc |-> 0, data |-> <<>>,
             key |-> NoKey, cap |-> 0, ret |-> 0]
NoDecode == [called |-> FALSE, key |-> NoKey, cap |-> 0, encdata |-> <<>>,
             err0 |-> 0, ret |-> 0, out |-> <<>>, outlen |-> 0,
             unpacked |-> FALSE]

FrameInit ==
    /\ downstream_decode_err = 0
    /\ frame = <<>>
    /\ tamper = "none"
    /\ enc = NoEncode
    /\ dec = NoDecode
    /\ fop = "none"
    /\ WindowIdle
    /\ SeqIdle
    /\ SendIdle

\* a message is built once the previous one is done with
Encode(data, key, flags, cmc, cap, rnd) ==
    LET r == downstream_encode(cap, data, key, flags, cmc, RandBytes(rnd))
    IN  /\ fop \in {"none", "release"}
        /\ enc' = [called |-> TRUE, flags |-> flags, cmc |-> cmc,
                   data |-> data, key |-> key, cap |-> cap, ret |-> r.ret]
        /\ frame' = r.out
        /\ tamper' = "none"
        /\ dec' = NoDecode
        /\ fop' = "encode"
        /\ UNCHANGED <<downstream_decode_err, notFraming>>

FlipLowBit(sym) == IF sym % 2 = 0 THEN sym + 1 ELSE sym - 1

CarrierFlip(p) ==
    /\ tamper = "none"
    /\ p \in 1..Len(frame)
    /\ frame' = [frame EXCEPT ![p] = FlipLowBit(@)]
    /\ tamper' = "flip"
    /\ dec' = NoDecode
    /\ fop' = "carrier"
    /\ UNCHANGED <<downstream_decode_err, enc, notFraming>>

CarrierSetFlags(v) ==
    /\ tamper = "none"
    /\ Len(frame) >= 1
    /\ frame[1] # b32_5to8(v)
    /\ frame' = [frame EXCEPT ![1] = b32_5to8(v)]
    /\ tamper' = "flags"
    /\ enc' = NoEncode
    /\ dec' = NoDecode
    /\ fop' = "carrier"
    /\ UNCHANGED <<downstream_decode_err, notFraming>>

CarrierTruncate(n) ==
    /\ tamper \in {"none", "flags"}
    /\ n < Len(frame)
    /\ frame' = SubSeq(frame, 1, n)
    /\ tamper' = "trunc"
    /\ enc' = NoEncode
    /\ dec' = NoDecode
    /\ fop' = "carrier"
    /\ UNCHANGED <<downstream_decode_err, notFraming>>

\* a message is validated once
Decode(key, cap) ==
    LET r == downstream_decode(cap, frame, key, downstream_decode_err)
    IN  /\ fop # "decode"
        /\ dec' = [called |-> TRUE, key |-> key, cap |-> cap,
                   encdata |-> frame, err0 |-> downstream_decode_err,
                   ret |-> r.ret, out |-> r.out, outlen |-> r.outlen,
                   unpacked |-> r.unpacked]
        /\ downstream_decode_err' = r.err
        /\ fop' = "decode"
        /\ UNCHANGED <<frame, tamper, enc, notFraming>>

\* both sides are done with the message; downstream_decode_err stays
Release ==
    /\ fop # "release"
    /\ frame' = <<>>
    /\ tamper' = "none"
    /\ enc' = NoEncode
    /\ dec' = NoDecode
    /\ fop' = "release"
    /\ UNCHANGED <<downstream_decode_err, notFraming>>

\* the caller's choice of arguments; a keyed build draws no random bytes
BuildFrame ==
    /\ fop \in {"none", "release"}
    /\ \E data \in Payloads, key \in EncodeKeys, flags \in FlagsIn,
          cmc \in Counters, cap \in EncodeCaps,
          rnd \in RandSeeds :
            /\ (key # NoKey => rnd = 3)
            /\ Encode(data, key, flags, cmc, cap, rnd)

Carrier ==
    /\ tamper \in {"none", "flags"}
    /\ \/ \E p \in FlipPositions : CarrierFlip(p)
       \/ \E v \in TamperFlags : CarrierSetFlags(v)
       \/ \E n \in TruncateTo : CarrierTruncate(n)

ValidateFrame ==
    /\ fop # "decode"
    /\ \E key \in DecodeKeys, cap \in DecodeCaps : Decode(key, cap)

FrameNext ==
    \/ BuildFrame
    \/ Carrier
    \/ ValidateFrame
    \/ Release


(***************************************************************************)
(* Properties of the framing.                                              *)
(***************************************************************************)
\* what a received frame says about itself
FrameFlags(f) == b32_8to5(f[1])
FrameIsError(f) == HasBit(FrameFlags(f), DH_ERROR)
FrameIsShort(f) == HasBit(FrameFlags(f), DH_HMAC32)
FrameMacLen(f) == IF FrameIsShort(f) THEN 4 ELSE 12
\* the decoded body of a received frame: counter | MAC | payload
FrameBody(f) ==
    unpack_data(Len(f) - 1, Tail(f),
                IF FrameIsError(f) THEN C_BASE32 ELSE FrameFlags(f) % 8)
\* the MAC field a received frame carries, and the MAC of the frame under
\* key: over 4-byte length, flags symbol as received, counter, zeroed MAC
\* field, payload
FrameCarriedMac(f) == SubSeq(FrameBody(f), 5, 4 + FrameMacLen(f))
FrameComputedMac(f, key) ==
    LET raw == FrameBody(f)
        n == FrameMacLen(f)
    IN  SubSeq(hmac_md5(key, putlong(Len(raw) + 1) \o <<f[1]>>
                              \o SubSeq(raw, 1, 4) \o Zeros(n)
                              \o SubSeq(raw, 4 + n + 1, Len(raw))), 1, n)
\* the size of the frame downstream_encode has to write for these arguments
EncodedFrameLen(flags, datalen) ==
    1 + EncodedLength(EncodeCodec(flags),
                      4 + HmacLen(EncodeFlags(flags)) + datalen)
\* the build had room for the whole frame and the terminator
BuiltWhole ==
    /\ enc.called
    /\ get_encoder(EncodeCodec(enc.flags)) # NoEncoder
    /\ enc.cap >= EncodedFrameLen(enc.flags, Len(enc.data)) + 2
\* the raw input as the failure path leaves it in the output buffer
RawCopy == Prefix(dec.encdata, dec.cap)

\* C1: a frame built without the error flag under one of the five codecs,
\* with room for all of it, and validated untouched under the same key (or
\* under no key on both sides) with room for the payload, is accepted and
\* yields the payload that was given to the build, length and bytes.
C1_RoundTrip ==
    (/\ fop = "decode"
     /\ tamper = "none"
     /\ BuiltWhole
     /\ ~HasBit(enc.flags, DH_ERROR)
     /\ dec.key = enc.key
     /\ dec.cap >= Len(enc.data))
    => (dec.ret = 1 /\ dec.outlen = Len(enc.data) /\ dec.out = enc.data)

C1_Witness ==
    /\ fop = "decode"
    /\ tamper = "none"
    /\ BuiltWhole
    /\ enc.flags = C_BASE32 + DH_HMAC32
    /\ enc.key # NoKey
    /\ dec.key = enc.key
    /\ Len(enc.data) = 2
    /\ dec.ret = 1
    /\ dec.out = enc.data

\* C2: a frame with the error flag, the long MAC, a body of at least 4 + 12
\* bytes and (with a key) a valid MAC is refused, with the error value
\* IsAnswerError plus the embedded 3-bit code, and no payload is handed out.
C2_PeerError ==
    (/\ fop = "decode"
     /\ Len(dec.encdata) >= 2
     /\ FrameIsError(dec.encdata)
     /\ ~FrameIsShort(dec.encdata)
     /\ Len(FrameBody(dec.encdata)) >= 4 + 12
     /\ (dec.key # NoKey =>
            FrameCarriedMac(dec.encdata) = FrameComputedMac(dec.encdata, dec.key)))
    => (/\ dec.ret = 0
        /\ downstream_decode_err
             = DDERR_IS_ANS + (FrameFlags(dec.encdata) % 8)
        /\ dec.out = RawCopy)

\* C3: with a key, a frame that gets as far as the MAC check and carries a
\* MAC field other than the MAC computed over it is refused with exactly
\* BadMAC, and the output holds the raw input, not a payload; so is a frame
\* that was built whole under that key and had one bit of its MAC field
\* flipped on the way.
C3_Tamper ==
    /\ (/\ fop = "decode"
        /\ dec.key # NoKey
        /\ Len(dec.encdata) >= 2
        /\ ~(FrameIsError(dec.encdata) /\ FrameIsShort(dec.encdata))
        /\ Len(FrameBody(dec.encdata)) >= 4 + FrameMacLen(dec.encdata)
        /\ FrameCarriedMac(dec.encdata)
             # FrameComputedMac(dec.encdata, dec.key))
       => (/\ dec.ret = 0
           /\ downstream_decode_err = DDERR_BADHMAC
           /\ dec.out = RawCopy
           /\ dec.outlen = Len(RawCopy))
    /\ (/\ fop = "decode"
        /\ tamper = "flip"
        /\ BuiltWhole
        /\ enc.key # NoKey
        /\ dec.key = enc.key)
       => (dec.ret = 0 /\ downstream_decode_err = DDERR_BADHMAC)

C3_Witness ==
    /\ fop = "decode"
    /\ tamper = "flip"
    /\ BuiltWhole
    /\ enc.key # NoKey
    /\ dec.key = enc.key
    /\ enc.flags = C_RAW + DH_HMAC32
    /\ dec.cap >= Len(enc.data)
    /\ dec.ret = 0
    /\ downstream_decode_err = DDERR_BADHMAC

\* C4: a build with the error flag set writes a flags symbol with the error
\* bit set and the short-MAC bit clear, whatever short-MAC and codec bits
\* were asked for; and the frame (given room for all of it) is the base32
\* encoding of counter, a 12-byte MAC field and the payload.
C4_ErrorForcesLongMac ==
    (fop = "encode" /\ HasBit(enc.flags, DH_ERROR) /\ enc.ret = 1)
    => (/\ Len(frame) >= 1
        /\ HasBit(b32_8to5(frame[1]), DH_ERROR)
        /\ ~HasBit(b32_8to5(frame[1]), DH_HMAC32)
        /\ b32_8to5(frame[1]) % 8 = enc.flags % 8
        /\ (enc.cap >= 1 + EncodedLength(C_BASE32, 16 + Len(enc.data)) + 2
            => LET raw == EncDecode(C_BASE32, Len(frame), Tail(frame))
               IN  /\ Len(frame) = 1 + EncodedLength(C_BASE32, 16 + Len(enc.data))
                   /\ Len(raw) = 4 + 12 + Len(enc.data)
                   /\ SubSeq(raw, 1, 4) = putlong(enc.cmc)
                   /\ SubSeq(raw, 17, Len(raw)) = enc.data))

C4_Witness ==
    /\ fop = "encode"
    /\ enc.flags = DH_ERROR + DH_HMAC32 + C_RAW
    /\ enc.ret = 1
    /\ Len(enc.data) = 1
    /\ Len(frame) = 1 + EncodedLength(C_BASE32, 17)

\* C5: an input of fewer than 2 symbols, and an input whose decoded body is
\* shorter than 4 + mac_len bytes, is refused and the call leaves TooShort
\* as the error code.
C5_TooShort ==
    (/\ fop = "decode"
     /\ \/ Len(dec.encdata) < 2
        \/ Len(FrameBody(dec.encdata)) < 4 + FrameMacLen(dec.encdata))
    => (dec.ret = 0 /\ downstream_decode_err = DDERR_TOOSHORT)

\* C6: a build whose output capacity is below the size of the encoded frame
\* (one flags symbol plus the encoding of counter, MAC and payload) fails.
C6_CapacityCheck ==
    (/\ fop = "encode"
     /\ get_encoder(EncodeCodec(enc.flags)) # NoEncoder
     /\ enc.cap < EncodedFrameLen(enc.flags, Len(enc.data)))
    => enc.ret = 0

\* C7 as stated: every frame whose flags symbol has the error bit and the
\* short-MAC bit is refused with the BadMAC bit in the error code, its body
\* not decoded, no payload handed out, with or without a key.
C7_AntiDowngradeAnyLength ==
    (/\ fop = "decode"
     /\ Len(dec.encdata) >= 1
     /\ FrameIsError(dec.encdata)
     /\ FrameIsShort(dec.encdata))
    => (/\ dec.ret = 0
        /\ HasBit(downstream_decode_err, DDERR_BADHMAC)
        /\ ~dec.unpacked
        /\ dec.out = RawCopy)

\* C7 amended: every frame of at least 2 symbols whose flags symbol has the
\* error bit and the short-MAC bit is refused with the error code
\* IsAnswerError + BadMAC, its body not decoded, the output holding the raw
\* input, with or without a key.
C7_AntiDowngrade ==
    (/\ fop = "decode"
     /\ Len(dec.encdata) >= 2
     /\ FrameIsError(dec.encdata)
     /\ FrameIsShort(dec.encdata))
    => (/\ dec.ret = 0
        /\ HasBit(downstream_decode_err, DDERR_BADHMAC)
        /\ downstream_decode_err = DDERR_IS_ANS + DDERR_BADHMAC
        /\ ~dec.unpacked
        /\ dec.out = RawCopy)

C7_Witness ==
    /\ fop = "decode"
    /\ Len(dec.encdata) >= 4 + 4 + 1
    /\ FrameIsError(dec.encdata)
    /\ FrameIsShort(dec.encdata)
    /\ dec.key # NoKey
    /\ dec.ret = 0
    /\ HasBit(downstream_decode_err, DDERR_BADHMAC)

\* C8: whenever validation fails, the output buffer holds the first
\* min(capacity, encoded length) symbols of the raw input and the output
\* length is that count.
C8_DiagnosticCopy ==
    (fop = "decode" /\ dec.ret = 0)
    => (/\ dec.outlen = Min(dec.cap, Len(dec.encdata))
        /\ Len(dec.out) = dec.outlen
        /\ \A i \in 1..dec.outlen : dec.out[i] = dec.encdata[i])

C8_Witness ==
    /\ fop = "decode"
    /\ dec.ret = 0
    /\ downstream_decode_err = DDERR_BADHMAC
    /\ dec.cap < Len(dec.encdata)
    /\ dec.outlen = dec.cap
    /\ dec.cap > 0


\* C19: whatever the input and the capacity, the validation leaves at
\* most capacity many bytes in the output and an output length of at most
\* the capacity, the length being that of what it wrote; and a frame that
\* passes every test but whose payload is longer than the capacity is
\* refused, not cut.
C19_OutputBounds ==
    fop = "decode" =>
        /\ Len(dec.out) <= dec.cap
        /\ dec.outlen <= dec.cap
        /\ dec.outlen = Len(dec.out)
        /\ (/\ Len(dec.encdata) >= 2
            /\ ~FrameIsError(dec.encdata)
            /\ Len(FrameBody(dec.encdata)) > 4 + FrameMacLen(dec.encdata) + dec.cap)
           => dec.ret = 0
        /\ dec.ret = 1 =>
              dec.outlen = Len(FrameBody(dec.encdata)) - 4 - FrameMacLen(dec.encdata)

\* a frame that validates but for the room: a payload of two bytes, room
\* for one
C19_Witness ==
    /\ fop = "decode"
    /\ tamper = "none"
    /\ BuiltWhole
    /\ ~HasBit(enc.flags, DH_ERROR)
    /\ dec.key = enc.key
    /\ dec.key # NoKey
    /\ Len(enc.data) > dec.cap
    /\ dec.cap > 0
    /\ dec.unpacked
    /\ dec.ret = 0
    /\ Len(dec.out) = dec.cap

\* C20: a build that returns 1 has encoded counter, MAC and payload into
\* the frame; with the error flag clear and codec bits that select none of
\* the five codecs the build fails.
C20_UnknownCodecFails ==
    /\ (fop = "encode" /\ enc.ret = 1)
          => (get_encoder(EncodeCodec(enc.flags)) # NoEncoder /\ Len(frame) > 1)
    /\ (/\ fop = "encode"
        /\ ~HasBit(enc.flags, DH_ERROR)
        /\ get_encoder(enc.flags) = NoEncoder)
          => enc.ret = 0


(***************************************************************************)
(* The receiving window: fragments arrive in any order, some twice, some   *)
(* stale, some far ahead; the application asks for reassembled chunks.     *)
(***************************************************************************)

\* where the stream of sequence ids may have got to when the run starts
StartSeqIds == {255}
\* offsets from start_seq_id of the fragments that arrive: in the buffer,
\* ahead of it, and behind the window
ArrivalOffsets == (0..(WinLength - 1)) \cup {WinLength + 1, MAX_SEQ_AHEAD + 2}

\* the fragment of a sequence id as the sender made it: payload and
\* compression flag are its own
FragmentOf(seq, start, end) ==
    [data |-> IF seq % 2 = 0 THEN <<seq>> ELSE <<seq, 255 - seq>>,
     seqID |-> seq, retries |-> 0, acks |-> 0, ack_other |-> -1,
     compressed |-> (seq \div 2) % 2, start |-> start, end |-> end]

\* the same sequence id with a payload and a compression flag the sender
\* never gave it
AlteredOf(seq, start, end) ==
    [FragmentOf(seq, start, end) EXCEPT !.data = <<(seq + 1) % MAX_SEQ_ID, seq, seq>>,
                                        !.compressed = 1 - @]

WindowInit ==
    /\ win \in {WindowAt(seq) : seq \in StartSeqIds}
    /\ pre = win
    /\ wop = NoOp
    /\ arrived = {}
    /\ noise = 0
    /\ delivered = 0
    /\ FramingIdle
    /\ SeqIdle
    /\ SendIdle

\* a fragment arrives while the buffer has room; what arrives twice or
\* from beyond the buffer is counted
Insert(f) ==
    LET offset == (f.seqID - win.start_seq_id + MAX_SEQ_ID) % MAX_SEQ_ID
        again == \E g \in arrived : g.seqID = f.seqID
        odd == again \/ offset >= win.length
        resident == \E i \in DOMAIN win.frags :
                       win.frags[i].data # <<>> /\ win.frags[i].seqID = f.seqID
    IN  /\ delivered < MaxDeliveries
        /\ again \/ win.numitems < win.length
        /\ odd => noise < MaxNoise
        /\ win' = window_process_incoming_fragment(win, f)
        /\ pre' = IF resident THEN win ELSE win'
        /\ wop' = [NoOp EXCEPT !.op = "insert",
                               !.seqID = IF resident THEN f.seqID ELSE -1]
        /\ arrived' = IF again THEN arrived ELSE arrived \cup {f}
        /\ noise' = IF odd THEN noise + 1 ELSE noise
        /\ UNCHANGED <<delivered, notWindow>>

\* the application asks for the next chunk
Reassemble ==
    LET r == window_reassemble_data(win)
    IN  /\ delivered < MaxDeliveries
        /\ win' = r.w
        /\ pre' = win
        /\ wop' = [op |-> "reassemble", len |-> r.len,
                   data |-> r.data, compression |-> r.compression,
                   frags |-> r.frags, had |-> arrived, seqID |-> -1]
        /\ arrived' = IF r.frags > 0
                      THEN {[r.w.frags[i] EXCEPT !.retries = 0] :
                              i \in {j \in DOMAIN r.w.frags :
                                        Occupied(r.w.frags[j])}}
                      ELSE arrived
        /\ delivered' = IF r.frags > 0 THEN delivered + 1 ELSE delivered
        /\ UNCHANGED <<noise, notWindow>>

\* a resident sequence id arrives again, with another payload
InsertAltered ==
    /\ delivered < MaxDeliveries
    /\ noise < MaxNoise
    /\ \E i \in DOMAIN win.frags, start \in {0, 1}, end \in {0, 1} :
          /\ win.frags[i].data # <<>>
          /\ Insert(AlteredOf(win.frags[i].seqID, start, end))

WindowNext ==
    \/ \E o \in ArrivalOffsets, start \in {0, 1}, end \in {0, 1} :
          Insert(FragmentOf((win.start_seq_id + o) % MAX_SEQ_ID, start, end))
    \/ InsertAltered
    \/ Reassemble

(***************************************************************************)
(* Properties of the receiving window.                                     *)
(***************************************************************************)
\* how far sequence id q is ahead of the window's start
SeqAhead(w, q) == (q - w.start_seq_id + MAX_SEQ_ID) % MAX_SEQ_ID
ResidentSeq(w, q) ==
    \E i \in DOMAIN w.frags : Occupied(w.frags[i]) /\ w.frags[i].seqID = q
\* the fragment at chunk_start is the chunk-start fragment of start_seq_id
HeadIsStart(w) ==
    /\ Occupied(w.frags[w.chunk_start])
    /\ w.frags[w.chunk_start].start = 1
    /\ w.frags[w.chunk_start].seqID = w.start_seq_id
\* how far ahead the resident chunk-end fragments are
EndsAhead(w) ==
    {SeqAhead(w, w.frags[i].seqID) :
        i \in {j \in DOMAIN w.frags :
                  Occupied(w.frags[j]) /\ w.frags[j].end = 1}}
FirstEndAhead(w) == CHOOSE e \in EndsAhead(w) : \A d \in EndsAhead(w) : e <= d
\* every sequence id from the head to the first chunk-end is resident
ChunkComplete(w) ==
    /\ HeadIsStart(w)
    /\ EndsAhead(w) # {}
    /\ \A k \in 0..FirstEndAhead(w) : ResidentSeq(w, (w.start_seq_id + k) % MAX_SEQ_ID)
\* a sequence id between the head and the first chunk-end is missing
ChunkHasGap(w) ==
    /\ HeadIsStart(w)
    /\ EndsAhead(w) # {}
    /\ \E k \in 1..(FirstEndAhead(w) - 1) :
          ~ResidentSeq(w, (w.start_seq_id + k) % MAX_SEQ_ID)

\* C9: a reassembly on a window whose chunk has a missing sequence id between
\* the chunk-start fragment at chunk_start and the first chunk-end fragment
\* returns 0 bytes and changes no slot; and a reassembly returns data only
\* when every fragment of the chunk is resident.
C9_NoPartialReassembly ==
    wop.op = "reassemble" =>
        /\ ChunkHasGap(pre) => (wop.len = 0 /\ wop.frags = 0 /\ win = pre)
        /\ wop.len > 0 => ChunkComplete(pre)

\* the slots that hold sequence id q
SlotsOf(w, q) ==
    {i \in DOMAIN w.frags : w.frags[i].data # <<>> /\ w.frags[i].seqID = q}

\* C14: an insert of a fragment whose sequence id is resident adds one to
\* the retries of the slot that holds it and changes nothing else of the
\* window: payload, length, acks, flags of that slot, the other slots,
\* numitems; whatever the fragment carries.
C14_DuplicateReceipt ==
    (wop.op = "insert" /\ wop.seqID # -1) =>
        /\ SlotsOf(pre, wop.seqID) # {}
        /\ \A i \in SlotsOf(pre, wop.seqID) :
              /\ win = [pre EXCEPT !.frags[i].retries = @ + 1]
              /\ win.frags[i].data = pre.frags[i].data
              /\ win.frags[i].acks = pre.frags[i].acks
              /\ win.numitems = pre.numitems

\* a duplicate was counted on a full window
C14_Witness ==
    /\ wop.op = "insert"
    /\ wop.seqID # -1
    /\ pre.numitems = pre.length
    /\ \E i \in SlotsOf(pre, wop.seqID) :
          win.frags[i].retries = pre.frags[i].retries + 1
    /\ noise = 1

\* the fragments handed in were exactly the n fragments of one chunk from s
ChunkHad(had, s, n) ==
    /\ Cardinality(had) = n
    /\ \A k \in 0..(n - 1) :
          \E g \in had : /\ g.seqID = (s + k) % MAX_SEQ_ID
                         /\ g.start = (IF k = 0 THEN 1 ELSE 0)
                         /\ g.end = (IF k = n - 1 THEN 1 ELSE 0)
HadSeq(had, q) == CHOOSE g \in had : g.seqID = q
RECURSIVE InSeqOrder(_, _, _, _)
InSeqOrder(had, s, k, n) ==
    IF k >= n THEN <<>>
    ELSE HadSeq(had, (s + k) % MAX_SEQ_ID).data \o InSeqOrder(had, s, k + 1, n)

\* C10: when exactly the fragments of one chunk s, s+1, ... (modulo 256)
\* have arrived at a window whose start_seq_id is s, in whatever order,
\* the reassembly returns their payloads concatenated in sequence-id order
\* from s, with the compressed flag of the fragment s.
C10_InOrderAcrossWrap ==
    \A n \in 1..WinLength :
        (wop.op = "reassemble" /\ ChunkHad(wop.had, pre.start_seq_id, n)) =>
            /\ wop.data = InSeqOrder(wop.had, pre.start_seq_id, 0, n)
            /\ wop.len = Len(wop.data)
            /\ wop.len > 0
            /\ wop.compression = HadSeq(wop.had, pre.start_seq_id).compressed

\* a whole window of fragments, crossing 255 to 0, arrived out of order
C10_Witness ==
    /\ wop.op = "reassemble"
    /\ ChunkHad(wop.had, pre.start_seq_id, WinLength)
    /\ pre.start_seq_id + WinLength > MAX_SEQ_ID
    /\ pre.oos >= 1
    /\ wop.len > WinLength

(***************************************************************************)
(* The sending window: the application adds chunks, the loop asks for the  *)
(* next fragment to send, acknowledgements arrive in any order, time       *)
(* passes.  The window advances after each operation.                      *)
(***************************************************************************)

\* where the stream of sequence ids may have got to when the run starts
SendStartSeqIds == {255}
\* chunks the window takes in one run
MaxAdds == MaxDeliveries
\* the clock stops here
MaxClock == MaxRetries
\* the buffers the application sends: of one fragment, of two with a short
\* one, of as many full ones as the window is wide or has slots, and of
\* one byte more
OutgoingLengths ==
    {1, MaxFragLen, MaxFragLen + 1, MaxFragLen * SendWindowSize,
     MaxFragLen * SendLength, MaxFragLen * SendLength + 1}
OutgoingData == {[i \in 1..len |-> i] : len \in OutgoingLengths}
\* the acknowledgement of the other direction there is to piggyback
OtherAcks == {7}

SendInit ==
    /\ snd \in {SendWindowAt(seq, SendLength - 1) : seq \in SendStartSeqIds}
    /\ spre = snd
    /\ sop = NoSendOp
    /\ now = 0
    /\ handed = <<>>
    /\ chunk = NoChunk
    /\ adds = 0
    /\ FramingIdle
    /\ WindowIdle
    /\ SeqIdle

\* the application sends a buffer, and asks again when the window is busy
AddData(data, compressed) ==
    LET r == window_add_outgoing_data(snd, data, compressed)
    IN  /\ adds < MaxAdds \/ r.ret < 0
        /\ snd' = window_tick(r.w)
        /\ spre' = snd
        /\ sop' = [NoSendOp EXCEPT !.op = "add", !.ret = r.ret, !.data = data]
        /\ chunk' = IF r.ret < 0 THEN chunk
                    ELSE IF snd.numitems = 0
                    THEN [ws |-> snd.window_start, first |-> snd.cur_seq_id,
                          n |-> r.ret, acked |-> {}, ooo |-> FALSE]
                    ELSE NoChunk
        /\ adds' = IF r.ret < 0 THEN adds ELSE adds + 1
        /\ UNCHANGED <<now, handed, notSend>>

\* the loop asks for the next fragment to send
PickNext(other_ack) ==
    LET r == window_get_next_sending_fragment(snd, now, other_ack)
        q == r.frag.seqID
    IN  /\ snd' = window_tick(r.w)
        /\ spre' = snd'
        /\ sop' = [NoSendOp EXCEPT
                     !.op = "pick", !.sent = IF Occupied(r.frag) THEN q ELSE -1,
                     !.dropped = r.dropped,
                     !.reached = IF Due(snd, now) = {} THEN -1
                                 ELSE snd.frags[NextDue(snd, now)].seqID]
        /\ handed' = IF ~Occupied(r.frag) THEN handed
                     ELSE IF q \in DOMAIN handed
                     THEN [handed EXCEPT ![q] = @ + 1]
                     ELSE (q :> 1) @@ handed
        /\ UNCHANGED <<now, chunk, adds, notSend>>

\* an acknowledgement arrives: of a resident fragment, once, or of a
\* sequence id the window does not hold
Acknowledge(seqid) ==
    /\ \A s \in DOMAIN snd.frags :
          (Occupied(snd.frags[s]) /\ snd.frags[s].seqID = seqid)
              => snd.frags[s].acks = 0
    /\ snd' = window_tick(window_ack(snd, seqid))
    /\ spre' = snd'
    /\ sop' = [NoSendOp EXCEPT !.op = "ack"]
    /\ chunk' = IF SEQ_OFFSET(chunk.first, seqid) < chunk.n
                THEN [chunk EXCEPT
                        !.acked = @ \cup {seqid},
                        !.ooo = @ \/ \E k \in 0..(chunk.n - 1) :
                                   /\ k < SEQ_OFFSET(chunk.first, seqid)
                                   /\ WRAPSEQ(chunk.first + k) \notin chunk.acked]
                ELSE chunk
    /\ UNCHANGED <<now, handed, adds, notSend>>

\* time passes once all that was due has been sent, while a fragment that
\* was sent waits for its acknowledgement
Wait ==
    /\ now < MaxClock
    /\ Due(snd, now) = {}
    /\ \E s \in DOMAIN snd.frags :
          /\ Occupied(snd.frags[s])
          /\ snd.frags[s].retries > 0
          /\ snd.frags[s].acks = 0
          /\ now - snd.frags[s].lastsent <= snd.timeout
    /\ now' = now + 1
    /\ sop' = [NoSendOp EXCEPT !.op = "wait"]
    /\ UNCHANGED <<snd, spre, handed, chunk, adds, notSend>>

\* the sequence ids an acknowledgement may name
AckSeqIds ==
    {snd.frags[s].seqID : s \in {i \in DOMAIN snd.frags : Occupied(snd.frags[i])}}
        \cup {snd.cur_seq_id}

SendNext ==
    \/ \E data \in OutgoingData : AddData(data, Len(data) % 2)
    \/ \E other_ack \in OtherAcks : PickNext(other_ack)
    \/ \E seqid \in AckSeqIds : Acknowledge(seqid)
    \/ Wait

\* fragments that len bytes make, m bytes each
CeilDiv(len, m) == CHOOSE n \in 0..len : (n - 1) * m < len /\ len <= n * m
\* how often sequence id q was handed out
HandedOut(q) == IF q \in DOMAIN handed THEN handed[q] ELSE 0
\* the slot that held, or holds, sequence id q
HoldsSeq(w, q) ==
    \E s \in DOMAIN w.frags : w.frags[s].data # <<>> /\ w.frags[s].seqID = q

PieceOf(k) ==
    SubSeq(sop.data, k * spre.maxfraglen + 1,
           IF (k + 1) * spre.maxfraglen < Len(sop.data)
           THEN (k + 1) * spre.maxfraglen ELSE Len(sop.data))
\* the pieces of it that are resident, under their sequence ids
PiecesResident ==
    {k \in 0..(CeilDiv(Len(sop.data), spre.maxfraglen) - 1) :
        \E s \in DOMAIN snd.frags :
            /\ snd.frags[s].seqID = (spre.cur_seq_id + k) % MAX_SEQ_ID
            /\ snd.frags[s].data = PieceOf(k)}

\* C12: a window_add_outgoing_data of data that needs more fragments than
\* the window has free slots fails and leaves the whole window as it was
\* (slots, numitems, last_write, cur_seq_id); after any call either every
\* fragment of the chunk is resident or none is.
C12_AllOrNothing ==
    sop.op = "add" =>
        LET need == CeilDiv(Len(sop.data), spre.maxfraglen)
        IN  /\ need > spre.length - spre.numitems
                => (sop.ret < 0 /\ snd = spre)
            /\ Cardinality(PiecesResident) \in {0, need}

\* a chunk that an empty window would take is refused by a busy one
C12_Witness ==
    /\ sop.op = "add"
    /\ sop.ret < 0
    /\ spre.numitems > 0
    /\ CeilDiv(Len(sop.data), spre.maxfraglen) <= spre.length
    /\ snd.numitems = spre.numitems

\* C13: once every sequence id of a chunk of n fragments (n at most
\* windowsize) that was added to an empty sending window has been
\* acknowledged, in whatever order, every slot is free, numitems is 0 and
\* window_start is n slots (modulo length) after where it was.
C13_AckAnyOrder ==
    (/\ chunk.n > 0
     /\ chunk.n <= snd.windowsize
     /\ chunk.acked = {(chunk.first + k) % MAX_SEQ_ID : k \in 0..(chunk.n - 1)})
        => /\ \A s \in DOMAIN snd.frags : snd.frags[s].data = <<>>
           /\ snd.numitems = 0
           /\ snd.window_start = (chunk.ws + chunk.n) % snd.length

\* a chunk that fills the window was acknowledged out of order
C13_Witness ==
    /\ sop.op = "ack"
    /\ chunk.n = SendLength
    /\ chunk.ooo
    /\ Cardinality(chunk.acked) = chunk.n
    /\ snd.numitems = 0

\* payloads of n slots from slot first on, in that order
RECURSIVE ConcatFrom(_, _, _, _)
ConcatFrom(w, first, i, n) ==
    IF i >= n THEN <<>>
    ELSE w.frags[(first + i) % w.length].data \o ConcatFrom(w, first, i + 1, n)

\* C16: a window_add_outgoing_data that succeeds on len bytes enqueues
\* exactly ceil(len / maxfraglen) fragments in the slots from last_write on:
\* each of at most maxfraglen bytes, all but the last of exactly maxfraglen,
\* with consecutive sequence ids (modulo 256) from the cur_seq_id before the
\* call, the first alone flagged start and the last alone flagged end; their
\* payloads in order make the input; cur_seq_id has advanced by the number
\* of fragments modulo 256.
C16_SplitResult ==
    (sop.op = "add" /\ sop.ret >= 0) =>
        LET m == spre.maxfraglen
            n == CeilDiv(Len(sop.data), m)
            slot(k) == (spre.last_write + k) % spre.length
            f(k) == snd.frags[slot(k)]
        IN  /\ snd.numitems = spre.numitems + n
            /\ \A s \in DOMAIN snd.frags :
                  (\A k \in 0..(n - 1) : s # slot(k))
                      => snd.frags[s] = spre.frags[s]
            /\ \A k \in 0..(n - 1) :
                  /\ Len(f(k).data) <= m
                  /\ Len(f(k).data) > 0
                  /\ k < n - 1 => Len(f(k).data) = m
                  /\ f(k).seqID = (spre.cur_seq_id + k) % MAX_SEQ_ID
                  /\ f(k).start = 1 <=> k = 0
                  /\ f(k).end = 1 <=> k = n - 1
            /\ ConcatFrom(snd, spre.last_write, 0, n) = sop.data
            /\ snd.cur_seq_id = (spre.cur_seq_id + n) % MAX_SEQ_ID

\* two fragments, the second short, across 255 to 0 and across the end of
\* the buffer
C16_Witness ==
    /\ sop.op = "add"
    /\ sop.ret >= 2
    /\ Len(sop.data) % spre.maxfraglen # 0
    /\ spre.cur_seq_id + sop.ret > MAX_SEQ_ID
    /\ spre.last_write + sop.ret > spre.length
    /\ snd.numitems = sop.ret

\* a slot holds data exactly when its sequence id is one of the numitems
\* from start_seq_id on
Residency(w) ==
    \A s \in DOMAIN w.frags :
        w.frags[s].data # <<>>
            <=> SEQ_OFFSET(w.start_seq_id, w.frags[s].seqID) < w.numitems

\* C17: in every reachable state of a window, receiving or sending, a
\* slot's data is non-empty if and only if its sequence id lies in
\* [start_seq_id, start_seq_id + numitems) modulo 256.
C17_Residency == Residency(win) /\ Residency(snd)

(***************************************************************************)
(* Sequence arithmetic: the membership test of window.h against the        *)
(* offset it is meant to agree with.                                       *)
(***************************************************************************)
\* sequence ids at the ends, in the middle and around the half
SeqSamples == {0, 1, 2, 127, 128, 129, 254, 255}

SeqInit ==
    /\ sq \in {[NoTest EXCEPT !.start = st, !.end = en, !.a = x] :
                  st \in SeqSamples, en \in SeqSamples, x \in SeqSamples}
    /\ FramingIdle
    /\ WindowIdle
    /\ SendIdle

TestMembership ==
    /\ ~sq.done
    /\ sq' = [sq EXCEPT !.done = TRUE,
                        !.inwin = INWINDOW_SEQ(sq.start, sq.end, sq.a)]
    /\ UNCHANGED <<fvars, wvars, svars>>

SeqNext == TestMembership

\* C18: INWINDOW_SEQ(start, end, a) is true exactly when the offset of a
\* from start is less than the span, the offset of end from start; with
\* ranges that wrap from 255 to 0 and with the empty range start = end.
C18_Membership ==
    sq.done =>
        (sq.inwin <=> SEQ_OFFSET(sq.start, sq.a) < SEQ_OFFSET(sq.start, sq.end))

SpecFraming == FrameInit /\ [][FrameNext]_vars

SpecWindow == WindowInit /\ [][WindowNext]_vars

SpecSeq == SeqInit /\ [][SeqNext]_vars

SpecSend == SendInit /\ [][SendNext]_vars

=============================================================================
